---------------------------- MODULE Spec2Model ----------------------------
(***************************************************************************)
(* A model of dfplayer_rename.py: the natural-sort key, the two-phase      *)
(* renamer and the driver that renames the .mp3 files of every folder and  *)
(* then the folders of an SD card.                                         *)
(*                                                                         *)
(* A name is a sequence of characters; a character is a one-character      *)
(* string, except "^2", which stands for the single character U+00B2       *)
(* (SUPERSCRIPT TWO): str.isdigit() is true of it, the pattern \d does not *)
(* match it, and int() rejects it.                                         *)
(***************************************************************************)
EXTENDS Integers, Sequences, FiniteSets, TLC

(***************************************************************************)
(* Program constants.                                                      *)
(***************************************************************************)
MAX_FOLDERS == 99
MAX_FILES_PER_FOLDER == 255
TEMP_PREFIX == <<"_", "_", "d", "f", "t", "e", "m", "p", "_">>

(***************************************************************************)
(* Bounds of the model.                                                    *)
(***************************************************************************)
\* At most this many entries directly under the root of a small tree.
MaxRootEntries == 2
\* At most this many entries, in total, inside the folders of a small tree.
MaxFolderEntries == 2
\* The large trees hold MAX - Slack .. MAX + Slack folders (or files).
Slack == 1

(***************************************************************************)
(* Characters.                                                             *)
(***************************************************************************)
DecimalChars == <<"0", "1", "2", "3", "4", "5", "6", "7", "8", "9">>

\* The code point of a character (ord).
Ord(c) ==
    CASE c = " " -> 32  [] c = "." -> 46
      [] c = "0" -> 48  [] c = "1" -> 49  [] c = "2" -> 50  [] c = "3" -> 51
      [] c = "4" -> 52  [] c = "5" -> 53  [] c = "6" -> 54  [] c = "7" -> 55
      [] c = "8" -> 56  [] c = "9" -> 57
      [] c = "A" -> 65  [] c = "K" -> 75  [] c = "M" -> 77  [] c = "P" -> 80
      [] c = "T" -> 84  [] c = "_" -> 95
      [] c = "a" -> 97  [] c = "c" -> 99  [] c = "d" -> 100 [] c = "e" -> 101
      [] c = "f" -> 102 [] c = "k" -> 107 [] c = "m" -> 109 [] c = "p" -> 112
      [] c = "r" -> 114 [] c = "t" -> 116 [] c = "x" -> 120
      [] c = "^2" -> 178

\* str.lower(), one character.
LowerChar(c) ==
    CASE c = "A" -> "a" [] c = "K" -> "k" [] c = "M" -> "m" [] c = "P" -> "p"
      [] c = "T" -> "t" [] OTHER -> c

\* str.lower().
Lower(s) == [i \in 1..Len(s) |-> LowerChar(s[i])]

\* The characters the pattern \d matches (Unicode category Nd).
ReDigit(c) == \E i \in 1..10 : DecimalChars[i] = c

\* The characters str.isdigit() accepts: the decimal digits and the digit
\* characters of category No, such as U+00B2.
IsDigitChar(c) == ReDigit(c) \/ c = "^2"

\* str.isdigit(): non-empty and every character a digit character.
IsDigit(s) == Len(s) > 0 /\ \A i \in 1..Len(s) : IsDigitChar(s[i])

\* The value of a decimal digit.
DigitVal(c) == (CHOOSE i \in 1..10 : DecimalChars[i] = c) - 1

\* int(s) accepts decimal digits only and raises ValueError otherwise.
IntOk(s) == Len(s) > 0 /\ \A i \in 1..Len(s) : ReDigit(s[i])

RECURSIVE IntOf(_)
IntOf(s) ==
    IF Len(s) = 0 THEN 0
    ELSE 10 * IntOf(SubSeq(s, 1, Len(s) - 1)) + DigitVal(s[Len(s)])

\* str(n) for n >= 0.
RECURSIVE Dec(_)
Dec(n) ==
    IF n < 10 THEN <<DecimalChars[n + 1]>>
    ELSE Dec(n \div 10) \o <<DecimalChars[(n % 10) + 1]>>

\* f"{n:0wd}": zero-padded to width w, never truncated.
RECURSIVE ZeroPad(_, _)
ZeroPad(s, w) == IF Len(s) >= w THEN s ELSE ZeroPad(<<"0">> \o s, w)

\* The file name generator padding to two digits.
FileFinalName_TwoDigits(i) == ZeroPad(Dec(i + 1), 2) \o <<".", "m", "p", "3">>

\* lambda i: f"{i + 1:03d}.mp3", i the 0-based position.
FileFinalName(i) == ZeroPad(Dec(i + 1), 3) \o <<".", "m", "p", "3">>

\* The folder name generator without the zero padding.
FolderFinalName_NoPad(i) == Dec(i + 1)

\* lambda i: f"{i + 1:02d}", i the 0-based position.
FolderFinalName(i) == ZeroPad(Dec(i + 1), 2)

\* The temporary name without the prefix.
TempName_NoPrefix(final) == final

\* f"{TEMP_PREFIX}{final_name}".
TempName(final) == TEMP_PREFIX \o final

\* name.lower().endswith(".mp3").
EndsWithMp3(name) ==
    /\ Len(name) >= 4
    /\ SubSeq(Lower(name), Len(name) - 3, Len(name)) = <<".", "m", "p", "3">>

(***************************************************************************)
(* natural_sort_key.                                                       *)
(***************************************************************************)
\* The length of the longest prefix of s made of \d characters.
RECURSIVE DigitRun(_)
DigitRun(s) ==
    IF Len(s) = 0 \/ ~ReDigit(s[1]) THEN 0
    ELSE 1 + DigitRun(SubSeq(s, 2, Len(s)))

\* The length of the longest prefix of s with no \d character.
RECURSIVE TextRun(_)
TextRun(s) ==
    IF Len(s) = 0 \/ ReDigit(s[1]) THEN 0
    ELSE 1 + TextRun(SubSeq(s, 2, Len(s)))

\* re.split(r'(\d+)', s): text, digits, text, ..., text; the text parts
\* may be empty at both ends.
RECURSIVE ReSplit(_)
ReSplit(s) ==
    LET t == TextRun(s)
        d == DigitRun(SubSeq(s, t + 1, Len(s)))
    IN  IF t = Len(s) THEN <<s>>
        ELSE <<SubSeq(s, 1, t), SubSeq(s, t + 1, t + d)>>
                 \o ReSplit(SubSeq(s, t + d + 1, Len(s)))

IntToken(n) == [kind |-> "int", num |-> n, str |-> <<>>]
StrToken(s) == [kind |-> "str", num |-> 0, str |-> s]

\* natural_sort_key raises ValueError: some part passes isdigit() and is
\* rejected by int().
KeyRaises(text) ==
    LET parts == ReSplit(Lower(text))
    IN  \E i \in 1..Len(parts) : IsDigit(parts[i]) /\ ~IntOk(parts[i])

\* The loop over the parts: int(part) for a part that passes isdigit(), the
\* part itself otherwise.
RECURSIVE Tokens(_)
Tokens(parts) ==
    IF Len(parts) = 0 THEN <<>>
    ELSE <<IF IsDigit(parts[1]) THEN IntToken(IntOf(parts[1]))
           ELSE StrToken(parts[1])>> \o Tokens(Tail(parts))

\* The list natural_sort_key returns (when it does not raise).
natural_sort_key(text) == Tokens(ReSplit(Lower(text)))

\* str < str: by code points, a proper prefix first.
RECURSIVE StrLess(_, _)
StrLess(a, b) ==
    IF Len(b) = 0 THEN FALSE
    ELSE IF Len(a) = 0 THEN TRUE
    ELSE IF a[1] # b[1] THEN Ord(a[1]) < Ord(b[1])
    ELSE StrLess(SubSeq(a, 2, Len(a)), SubSeq(b, 2, Len(b)))

\* The first position at which two lists differ, 0 when one is a prefix of
\* the other (list comparison looks for the first unequal pair).
FirstDiff(a, b) ==
    LET m == IF Len(a) < Len(b) THEN Len(a) ELSE Len(b)
        D == {i \in 1..m : a[i] # b[i]}
    IN  IF D = {} THEN 0 ELSE CHOOSE i \in D : \A j \in D : i <= j

\* Comparing the tokens that decide a < b raises TypeError when one is a
\* str and the other an int.
KeyTypeError(a, b) ==
    LET i == FirstDiff(a, b) IN i # 0 /\ a[i].kind # b[i].kind

TokenLess(x, y) ==
    IF x.kind = "int" THEN x.num < y.num ELSE StrLess(x.str, y.str)

\* The comparison turned around: a descending sort.
KeyLess_Descending(a, b) ==
    LET i == FirstDiff(a, b)
    IN  IF i = 0 THEN Len(b) < Len(a) ELSE TokenLess(b[i], a[i])

\* list < list on two keys.
KeyLess(a, b) ==
    LET i == FirstDiff(a, b)
    IN  IF i = 0 THEN Len(a) < Len(b) ELSE TokenLess(a[i], b[i])

(***************************************************************************)
(* list.sort(key=natural_sort_key) over the names os.listdir returns.      *)
(***************************************************************************)
\* The sort raises ValueError: the key of some name raises (the keys of all
\* the names are computed, of a single name too).
SortValueError(S) == \E x \in S : KeyRaises(x)

\* The sort raises TypeError: two of the keys cannot be compared.
SortTypeError(S) ==
    LET KS == {natural_sort_key(x) : x \in S}
    IN  \E a, b \in KS : KeyTypeError(a, b)

\* Every name with the number of names whose key is smaller.
Ranked(S) ==
    LET KS == {[name |-> x, key |-> natural_sort_key(x)] : x \in S}
    IN  {[name |-> p.name,
          rank |-> Cardinality({q \in KS : KeyLess(q.key, p.key)})] : p \in KS}

\* The orders of the elements of a set.
PermsOf(G) ==
    {p \in [1..Cardinality(G) -> G] :
        \A i, j \in 1..Cardinality(G) : p[i] = p[j] => i = j}

\* One order for each of the groups of names with equal keys, the groups
\* named by their rank.
RECURSIVE TieOrders(_, _)
TieOrders(RS, ranks) ==
    IF ranks = {} THEN {<<>>}
    ELSE LET r == CHOOSE x \in ranks : TRUE
             G == {p.name : p \in {q \in RS : q.rank = r}}
         IN  {(r :> p) @@ f : p \in PermsOf(G), f \in TieOrders(RS, ranks \ {r})}

\* The lists entries.sort(key=natural_sort_key) can leave for the names S:
\* os.listdir returns the names in an arbitrary order and the sort is
\* stable, so names with equal keys come out in any order.
SortedLists(S) ==
    LET R0 == Ranked(S)
        RS == {[name |-> q.name, rank |-> q.rank,
                size |-> Cardinality({x \in R0 : x.rank = q.rank})] : q \in R0}
        tied == {q.rank : q \in {x \in RS : x.size > 1}}
        At(f, i) ==
            LET q == CHOOSE x \in RS : x.rank < i /\ i <= x.rank + x.size
            IN  IF q.size > 1 THEN f[q.rank][i - q.rank] ELSE q.name
    IN  {[i \in 1..Cardinality(S) |-> At(f, i)] : f \in TieOrders(RS, tied)}

(***************************************************************************)
(* The file system: a directory is a function from the names in it to its  *)
(* entries.  An entry has a kind, the name it had when the run started     *)
(* (orig, which tells the entries apart) and, for a folder under the root, *)
(* its own entries (kids).  The kind is "dir" (os.path.isdir holds),       *)
(* "file" (os.path.isfile holds) or "other" (neither holds: a broken       *)
(* symbolic link, a FIFO), which os.rename treats as it treats a file.     *)
(***************************************************************************)
NoDir == <<>>

Entry(kind, orig, kids) == [kind |-> kind, orig |-> orig, kids |-> kids]

\* os.path.isdir / os.path.isfile of an entry.
IsDir(e) == e.kind = "dir"
IsFile(e) == e.kind = "file"

\* The directory with the entry at src moved to dst (dst replaced if held).
Moved(dir, src, dst) ==
    [n \in (DOMAIN dir \ {src}) \cup {dst} |-> IF n = dst THEN dir[src] ELSE dir[n]]

\* The exception os.rename(src, dst) raises in directory dir on the platform
\* plat, "" when it succeeds.  On Windows an existing dst always fails; on
\* POSIX a non-directory replaces a non-directory, a directory replaces an
\* empty directory, and the other cases fail.  Renaming a name to itself
\* does nothing.
RenameError(dir, src, dst, plat) ==
    IF src \notin DOMAIN dir THEN "FileNotFoundError"
    ELSE IF dst = src \/ dst \notin DOMAIN dir THEN ""
    ELSE IF plat = "windows" THEN "FileExistsError"
    ELSE IF IsDir(dir[src]) /\ ~IsDir(dir[dst]) THEN "NotADirectoryError"
    ELSE IF ~IsDir(dir[src]) /\ IsDir(dir[dst]) THEN "IsADirectoryError"
    ELSE IF IsDir(dir[src]) /\ DOMAIN dir[dst].kids # {} THEN "OSError(ENOTEMPTY)"
    ELSE ""

\* The directory after os.rename(src, dst).
Renamed(dir, src, dst, plat) ==
    IF RenameError(dir, src, dst, plat) # "" \/ dst = src THEN dir
    ELSE Moved(dir, src, dst)

(***************************************************************************)
(* The trees a run starts from.                                            *)
(***************************************************************************)
\* What can lie under the root of a small tree: two folders with equal
\* keys, a folder at the temporary name of the first folder, a folder whose
\* key raises, and files at the final and at the temporary name of the first
\* folder.
RootEntries ==
    { [name |-> <<"0", "1">>, kind |-> "dir"],
      [name |-> <<"1">>, kind |-> "dir"],
      [name |-> TempName(FolderFinalName(0)), kind |-> "dir"],
      [name |-> <<"^2">>, kind |-> "dir"],
      [name |-> <<"0", "1">>, kind |-> "file"],
      [name |-> TempName(FolderFinalName(0)), kind |-> "file"] }

\* What can lie in a folder of a small tree: two .mp3 files with equal keys
\* (one in upper case), an .mp3 file at the temporary name of the first
\* file, an .mp3 file whose key raises, a file that is no .mp3,
\* directories at the final and at the temporary name of the first file,
\* a broken symbolic link at the final name of the first file, and a file
\* that is no .mp3 with the prefix of the temporary names.
FolderEntries ==
    { [name |-> <<"0", "0", "1", ".", "m", "p", "3">>, kind |-> "file"],
      [name |-> <<"1", ".", "M", "P", "3">>, kind |-> "file"],
      [name |-> TempName(FileFinalName(0)), kind |-> "file"],
      [name |-> <<"^2", "1", ".", "m", "p", "3">>, kind |-> "file"],
      [name |-> <<"x", ".", "t", "x", "t">>, kind |-> "file"],
      [name |-> <<"0", "0", "1", ".", "m", "p", "3">>, kind |-> "dir"],
      [name |-> TempName(FileFinalName(0)), kind |-> "dir"],
      [name |-> <<"0", "0", "1", ".", "m", "p", "3">>, kind |-> "other"],
      [name |-> TEMP_PREFIX \o <<"x", ".", "t", "x", "t">>, kind |-> "file"] }

\* The sets of at most n of the entries C, no two with the same name.
Picks(C, n) ==
    {P \in SUBSET C :
        /\ Cardinality(P) <= n
        /\ \A x, y \in P : x.name = y.name => x = y}

\* The directory holding the entries P, the folders among them holding the
\* entries kids[name].
DirOf(P, kids) ==
    [n \in {x.name : x \in P} |->
        LET x == CHOOSE y \in P : y.name = n
        IN  Entry(x.kind, n, IF x.kind = "dir" THEN kids[n] ELSE NoDir)]

\* The ways to fill the folders named F with at most budget entries in all.
RECURSIVE Fillings(_, _)
Fillings(F, budget) ==
    IF F = {} THEN {NoDir}
    ELSE LET n == CHOOSE x \in F : TRUE
         IN  UNION {{(n :> DirOf(P, [m \in {x.name : x \in P} |-> NoDir])) @@ rest :
                        rest \in Fillings(F \ {n}, budget - Cardinality(P))} :
                       P \in Picks(FolderEntries, budget)}

SmallTrees ==
    UNION {{DirOf(P, kids) :
               kids \in Fillings({x.name : x \in {y \in P : y.kind = "dir"}}, MaxFolderEntries)} :
              P \in Picks(RootEntries, MaxRootEntries)}

\* The names of the large trees: their natural order is not the order of
\* their characters ("T2" before "T10").
FolderName(j) == <<"T">> \o Dec(j)
TrackName(j) == <<"t">> \o Dec(j) \o <<".", "M", "P", "3">>

OneTrack == (<<"1", ".", "M", "P", "3">> :> Entry("file", <<"1", ".", "M", "P", "3">>, NoDir))

\* n folders, the first holding one track; with sup, one of them is named
\* U+00B2.
ManyFolders(n, sup) ==
    [name \in {FolderName(j) : j \in 1..(n - 1)}
                 \cup {IF sup THEN <<"^2">> ELSE FolderName(n)} |->
        Entry("dir", name, IF name = FolderName(1) THEN OneTrack ELSE NoDir)]

\* A track and a file at the temporary name of the first file.
TrackAndTemp ==
    OneTrack @@ (TempName(FileFinalName(0)) :> Entry("file", TempName(FileFinalName(0)), NoDir))

\* Three folders, the second holding m tracks, the first one track (and,
\* with temp, a file at the temporary name of the first file).
ManyFiles(m, temp) ==
    [name \in {FolderName(j) : j \in 1..3} |->
        Entry("dir", name,
              IF name = FolderName(2)
              THEN [f \in {TrackName(j) : j \in 1..m} |-> Entry("file", f, NoDir)]
              ELSE IF name = FolderName(1) /\ temp THEN TrackAndTemp
              ELSE OneTrack)]

LargeTrees ==
    {ManyFolders(n, sup) : n \in (MAX_FOLDERS - Slack)..(MAX_FOLDERS + Slack),
                           sup \in BOOLEAN}
      \cup {ManyFiles(m, temp) :
              m \in (MAX_FILES_PER_FOLDER - Slack)..(MAX_FILES_PER_FOLDER + Slack),
              temp \in BOOLEAN}

(***************************************************************************)
(* The state of a run of process_sd_card.                                  *)
(***************************************************************************)
VARIABLES
    rootIsDir,   \* os.path.isdir(root)
    fs,          \* the directory root
    fs0,         \* fs when the run started
    platform,    \* "posix" or "windows"; "any" until a rename depends on it
    run,         \* 1, and 2 once process_sd_card is run again
    pc,          \* "start", "folder", "phase1", "phase2", "done", "exit"
    status,      \* the exit status, once pc is "done" or "exit"
    error,       \* what ended the run with status 1
    folders,     \* process_sd_card: folders
    fi,          \* the folder of the loop, Len(folders) + 1 after the loop
    mp3s,        \* the list collect_mp3s returned for each folder so far
    k,           \* rename_two_phase: the position of the next rename
    mapping,     \* rename_two_phase: mapping
    temp_names,  \* rename_two_phase: temp_names
    file_maps,   \* the file_mapping of each folder so far (<<>> if skipped)
    folder_map,  \* folder_mapping
    last,        \* the last call of os.rename
    nren,        \* the calls of os.rename of the run so far
    touched,     \* the folders in which os.rename was called
    lateList     \* a listing was computed after a call of os.rename

vars == <<rootIsDir, fs, fs0, platform, run, pc, status, error, folders, fi,
          mp3s, k, mapping, temp_names, file_maps, folder_map, last, nren,
          touched, lateList>>

NoCall == [level |-> "none", base |-> <<>>, src |-> <<>>, dst |-> <<>>,
           err |-> "", held |-> <<>>]

\* A run starts on the tree t (on nothing when the root is no directory).
StartOn(isDir, t) ==
    /\ rootIsDir = isDir
    /\ fs = t
    /\ fs0 = t
    /\ platform = "any"
    /\ run = 1
    /\ pc = "start"
    /\ status = 0
    /\ error = ""
    /\ folders = <<>>
    /\ fi = 1
    /\ mp3s = <<>>
    /\ k = 1
    /\ mapping = <<>>
    /\ temp_names = <<>>
    /\ file_maps = <<>>
    /\ folder_map = <<>>
    /\ last = NoCall
    /\ nren = 0
    /\ touched = {}
    /\ lateList = FALSE

Init ==
    \/ StartOn(FALSE, NoDir)
    \/ \E t \in SmallTrees \cup LargeTrees : StartOn(TRUE, t)

\* Two empty folders whose names are made of a text, a digit string and a
\* text.
PairNames ==
    {p \o d \o t :
        p \in {<<>>, <<"T">>, <<"t">>, <<"^2">>},
        d \in {<<"1">>, <<"2">>, <<"0", "2">>, <<"0", "0", "3">>, <<"1", "0">>},
        t \in {<<>>, <<"a">>}}

PairTrees ==
    {[n \in {a, b} |-> Entry("dir", n, NoDir)] : a, b \in PairNames}

InitPairs == \E t \in PairTrees : StartOn(TRUE, t)

\* The loop over the folders stopping one folder short.
InFiles_OneShort == fi < Len(folders)

\* The loop over the folders is running (the files are being renamed).
InFiles == fi <= Len(folders)

\* rename_two_phase: items, make_final_name and the directory base_dir.
Items == IF InFiles THEN mp3s[fi] ELSE folders
MakeFinalName(i) == IF InFiles THEN FileFinalName(i) ELSE FolderFinalName(i)
BaseDir == IF InFiles THEN fs[folders[fi]].kids ELSE fs
WithBaseDir(d) == IF InFiles THEN [fs EXCEPT ![folders[fi]].kids = d] ELSE d

\* sys.exit(1), or an exception nothing catches.
Exit(why) ==
    /\ pc' = "exit"
    /\ status' = 1
    /\ error' = why

\* collect_folders(root): the subdirectories of the root.
FolderSet == {n \in DOMAIN fs : IsDir(fs[n])}

\* collect_mp3s without the os.path.isfile test.
Mp3Set_NoIsFile(folder) == {n \in DOMAIN fs[folder].kids : EndsWithMp3(n)}

\* collect_mp3s(folder_path): the regular files with an .mp3 extension.
Mp3Set(folder) ==
    {n \in DOMAIN fs[folder].kids : IsFile(fs[folder].kids[n]) /\ EndsWithMp3(n)}

\* The platforms a call os.rename(src, dst) in dir can turn out to run on:
\* the platform shows only when dst is held by another entry.
Platforms(dir, src, dst) ==
    IF platform = "any" /\ src \in DOMAIN dir /\ dst \in DOMAIN dir /\ dst # src
    THEN {"posix", "windows"}
    ELSE {platform}

\* One call os.rename(base_dir/src, base_dir/dst).  The call can also fail
\* for a reason outside the program (PermissionError: permissions, a
\* removed disk).  An exception ends the run: nothing catches it.
OsRename(src, dst) ==
    \E o \in {[err |-> "PermissionError", plat |-> platform]}
               \cup {[err |-> RenameError(BaseDir, src, dst, p), plat |-> p] :
                        p \in Platforms(BaseDir, src, dst)} :
        /\ platform' = o.plat
        /\ fs' = IF o.err = "" THEN WithBaseDir(Renamed(BaseDir, src, dst, o.plat)) ELSE fs
        /\ last' = [level |-> IF InFiles THEN "files" ELSE "folders",
                    base |-> IF InFiles THEN folders[fi] ELSE <<>>,
                    src |-> src, dst |-> dst, err |-> o.err,
                    held |-> IF dst \in DOMAIN BaseDir
                                  /\ (src \notin DOMAIN BaseDir \/ dst # src)
                             THEN <<BaseDir[dst].orig>> ELSE <<>>]
        /\ nren' = nren + 1
        /\ touched' = IF InFiles THEN touched \cup {folders[fi]} ELSE touched

\* Lines 99-119: the root is checked, the folders are listed and counted.
Start ==
    /\ pc = "start"
    /\ IF ~rootIsDir
       THEN Exit("not_a_directory") /\ UNCHANGED <<folders, lateList>>
       ELSE /\ lateList' = (lateList \/ nren > 0)
            /\ IF SortValueError(FolderSet)
               THEN Exit("ValueError") /\ UNCHANGED folders
               ELSE IF SortTypeError(FolderSet)
               THEN Exit("TypeError") /\ UNCHANGED folders
               ELSE \E s \in SortedLists(FolderSet) :
                       /\ folders' = s
                       /\ IF Len(s) = 0
                          THEN pc' = "done" /\ UNCHANGED <<status, error>>
                          ELSE IF Len(s) > MAX_FOLDERS
                          THEN Exit("too_many_folders")
                          ELSE pc' = "folder" /\ UNCHANGED <<status, error>>
    /\ UNCHANGED <<rootIsDir, fs, fs0, platform, run, fi, mp3s, k, mapping,
                   temp_names, file_maps, folder_map, last, nren, touched>>

\* Lines 122-136: the .mp3 files of the next folder are listed and counted.
ListMp3s ==
    /\ pc = "folder"
    /\ InFiles
    /\ lateList' = (lateList \/ nren > 0)
    /\ IF SortValueError(Mp3Set(folders[fi]))
       THEN Exit("ValueError") /\ UNCHANGED <<mp3s, file_maps, fi>>
       ELSE IF SortTypeError(Mp3Set(folders[fi]))
       THEN Exit("TypeError") /\ UNCHANGED <<mp3s, file_maps, fi>>
       ELSE \E l \in SortedLists(Mp3Set(folders[fi])) :
               /\ mp3s' = Append(mp3s, l)
               /\ IF Len(l) = 0
                  THEN /\ file_maps' = Append(file_maps, <<>>)
                       /\ fi' = fi + 1
                       /\ UNCHANGED <<pc, status, error>>
                  ELSE IF Len(l) > MAX_FILES_PER_FOLDER
                  THEN Exit("too_many_files") /\ UNCHANGED <<file_maps, fi>>
                  ELSE pc' = "phase1" /\ UNCHANGED <<status, error, file_maps, fi>>
    /\ k' = 1
    /\ mapping' = <<>>
    /\ temp_names' = <<>>
    /\ UNCHANGED <<rootIsDir, fs, fs0, platform, run, folders, folder_map,
                   last, nren, touched>>

\* rename_two_phase is called on the folders with the last folder of the
\* loop still to be processed.
RenameFolders_Early ==
    /\ pc = "folder"
    /\ fi >= Len(folders)
    /\ fi' = Len(folders) + 1
    /\ pc' = "phase1"
    /\ k' = 1
    /\ mapping' = <<>>
    /\ temp_names' = <<>>
    /\ UNCHANGED <<rootIsDir, fs, fs0, platform, run, status, error, folders,
                   mp3s, file_maps, folder_map, last, nren, touched, lateList>>

\* Lines 152-157: after the loop, rename_two_phase is called on the folders.
RenameFolders ==
    /\ pc = "folder"
    /\ ~InFiles
    /\ pc' = "phase1"
    /\ k' = 1
    /\ mapping' = <<>>
    /\ temp_names' = <<>>
    /\ UNCHANGED <<rootIsDir, fs, fs0, platform, run, status, error, folders,
                   fi, mp3s, file_maps, folder_map, last, nren, touched, lateList>>

\* The first loop with an exception of os.rename caught and passed over.
Phase1_Swallow ==
    /\ pc = "phase1"
    /\ LET old_name == Items[k]
           final_name == MakeFinalName(k - 1)
           temp_name == TempName(final_name)
       IN  /\ OsRename(old_name, temp_name)
           /\ temp_names' = Append(temp_names, temp_name)
           /\ mapping' = Append(mapping, [old |-> old_name, new |-> final_name])
           /\ IF k = Len(Items)
              THEN pc' = "phase2" /\ k' = 1
              ELSE pc' = pc /\ k' = k + 1
           /\ UNCHANGED <<status, error>>
    /\ UNCHANGED <<rootIsDir, fs0, run, folders, fi, mp3s, file_maps,
                   folder_map, lateList>>

\* Lines 77-85: one pass of the first loop of rename_two_phase.
Phase1 ==
    /\ pc = "phase1"
    /\ LET old_name == Items[k]
           final_name == MakeFinalName(k - 1)
           temp_name == TempName(final_name)
       IN  /\ OsRename(old_name, temp_name)
           /\ IF last'.err # ""
              THEN Exit(last'.err) /\ UNCHANGED <<k, mapping, temp_names>>
              ELSE /\ temp_names' = Append(temp_names, temp_name)
                   /\ mapping' = Append(mapping, [old |-> old_name, new |-> final_name])
                   /\ IF k = Len(Items)
                      THEN pc' = "phase2" /\ k' = 1
                      ELSE pc' = pc /\ k' = k + 1
                   /\ UNCHANGED <<status, error>>
    /\ UNCHANGED <<rootIsDir, fs0, run, folders, fi, mp3s, file_maps,
                   folder_map, lateList>>

\* The temporary names paired with the mapping in reverse.
Phase2_Reversed(temps, map, i) == <<temps[i], map[Len(map) + 1 - i].new>>

\* Line 88: zip(temp_names, mapping) pairs the k-th temporary name with the
\* final name of the k-th pair of the mapping.
Phase2Pair(temps, map, i) == <<temps[i], map[i].new>>

\* The second loop stopping one pass short.
Phase2_StopsEarly ==
    /\ pc = "phase2"
    /\ OsRename(Phase2Pair(temp_names, mapping, k)[1], Phase2Pair(temp_names, mapping, k)[2])
    /\ IF last'.err # ""
       THEN /\ Exit(last'.err)
            /\ UNCHANGED <<k, mapping, temp_names, file_maps, folder_map, fi>>
       ELSE IF k < Len(mapping) - 1
       THEN /\ k' = k + 1
            /\ UNCHANGED <<pc, status, error, mapping, temp_names, file_maps,
                           folder_map, fi>>
       ELSE /\ k' = 1
            /\ mapping' = <<>>
            /\ temp_names' = <<>>
            /\ UNCHANGED <<status, error>>
            /\ IF InFiles
               THEN /\ file_maps' = Append(file_maps, mapping)
                    /\ fi' = fi + 1
                    /\ pc' = "folder"
                    /\ UNCHANGED folder_map
               ELSE /\ folder_map' = mapping
                    /\ pc' = "done"
                    /\ UNCHANGED <<file_maps, fi>>
    /\ UNCHANGED <<rootIsDir, fs0, run, folders, mp3s, lateList>>

\* Lines 88-94: one pass of the second loop of rename_two_phase; after the
\* last one the mapping is returned to the driver (lines 138-150, 153-169).
Phase2 ==
    /\ pc = "phase2"
    /\ OsRename(Phase2Pair(temp_names, mapping, k)[1], Phase2Pair(temp_names, mapping, k)[2])
    /\ IF last'.err # ""
       THEN /\ Exit(last'.err)
            /\ UNCHANGED <<k, mapping, temp_names, file_maps, folder_map, fi>>
       ELSE IF k < Len(mapping)
       THEN /\ k' = k + 1
            /\ UNCHANGED <<pc, status, error, mapping, temp_names, file_maps,
                           folder_map, fi>>
       ELSE /\ k' = 1
            /\ mapping' = <<>>
            /\ temp_names' = <<>>
            /\ UNCHANGED <<status, error>>
            /\ IF InFiles
               THEN /\ file_maps' = Append(file_maps, mapping)
                    /\ fi' = fi + 1
                    /\ pc' = "folder"
                    /\ UNCHANGED folder_map
               ELSE /\ folder_map' = mapping
                    /\ pc' = "done"
                    /\ UNCHANGED <<file_maps, fi>>
    /\ UNCHANGED <<rootIsDir, fs0, run, folders, mp3s, lateList>>

\* The tree with every entry's orig set to its present name.
Restamp(d) ==
    [n \in DOMAIN d |->
        Entry(d[n].kind, n,
              [m \in DOMAIN d[n].kids |-> Entry(d[n].kids[m].kind, m, NoDir)])]

\* process_sd_card is run once more on the tree a successful run left.
Rerun ==
    /\ pc = "done"
    /\ run = 1
    /\ run' = 2
    /\ fs' = Restamp(fs)
    /\ fs0' = Restamp(fs)
    /\ pc' = "start"
    /\ folders' = <<>>
    /\ fi' = 1
    /\ mp3s' = <<>>
    /\ k' = 1
    /\ mapping' = <<>>
    /\ temp_names' = <<>>
    /\ file_maps' = <<>>
    /\ folder_map' = <<>>
    /\ last' = NoCall
    /\ nren' = 0
    /\ touched' = {}
    /\ lateList' = FALSE
    /\ UNCHANGED <<rootIsDir, platform, status, error>>

\* Lines 145-149 and 160-164: what the driver prints for a pair of a mapping.
Reported(pair) == IF pair.old # pair.new THEN "->" ELSE "(unchanged)"

Next == Start \/ ListMp3s \/ RenameFolders \/ Phase1 \/ Phase2 \/ Rerun

Spec == Init /\ [][Next]_vars

\* The runs on two folders.
SpecPairs == InitPairs /\ [][Next]_vars

(***************************************************************************)
(* What the properties speak of.                                           *)
(***************************************************************************)
\* "01" .. "99" and "001.mp3" .. "255.mp3", written out digit by digit.
TwoDigits(n) == <<DecimalChars[(n \div 10) + 1], DecimalChars[(n % 10) + 1]>>
ThreeDigitsMp3(n) ==
    <<DecimalChars[(n \div 100) + 1], DecimalChars[((n \div 10) % 10) + 1],
      DecimalChars[(n % 10) + 1], ".", "m", "p", "3">>

\* The run has ended.
Ended == pc \in {"done", "exit"}

\* A call of os.rename failed for a reason outside the program.
Faulted == error = "PermissionError"

\* The names under which the folder that started the run as o is found.
NamesOfFolder(o) == {n \in DOMAIN fs : IsDir(fs[n]) /\ fs[n].orig = o}

\* The .mp3 files a folder entry holds.
HasMp3(e) == \E m \in DOMAIN e.kids : e.kids[m].kind = "file" /\ EndsWithMp3(m)
Mp3Count(e) == Cardinality({m \in DOMAIN e.kids : e.kids[m].kind = "file" /\ EndsWithMp3(m)})

\* The folders under the root when the run started.
Folders0 == {n \in DOMAIN fs0 : fs0[n].kind = "dir"}

\* The number of entries of a directory and of the directories in it.
Entries(d) == [n \in {e.orig : e \in {d[x] : x \in DOMAIN d}} |->
                 LET x == CHOOSE y \in DOMAIN d : d[y].orig = n
                 IN  {d[x].kids[m].orig : m \in DOMAIN d[x].kids}]

(***************************************************************************)
(* C1: while rename_two_phase runs, no call of os.rename targets a name    *)
(* that another entry of the directory holds, and at every moment the      *)
(* entries of the root and of every folder are the entries the run started *)
(* with: none is overwritten or lost.                                      *)
(***************************************************************************)
C1_NoCollision ==
    /\ last.held = <<>>
    /\ Entries(fs) = Entries(fs0)

(***************************************************************************)
(* C2: once the folder-rename step has completed for the N listed folders, *)
(* 1 <= N <= 99, those folders carry exactly the names "01" .. "NN", every *)
(* one of them under one name.                                             *)
(***************************************************************************)
C2_FolderNames ==
    (pc = "done" /\ Len(folders) > 0) =>
        LET N == Len(folders)
            listed == {folders[i] : i \in 1..N}
        IN  /\ N <= MAX_FOLDERS
            /\ {n \in DOMAIN fs : IsDir(fs[n]) /\ fs[n].orig \in listed}
                 = {TwoDigits(i) : i \in 1..N}
            /\ {fs[TwoDigits(i)].orig : i \in 1..N} = listed

\* The step completes for a full card: 99 folders.
C2_Witness == pc = "done" /\ Len(folders) = MAX_FOLDERS /\ nren > 0

(***************************************************************************)
(* C3: once the file-rename step of a folder has completed for its M       *)
(* listed .mp3 files, M <= 255, those files carry exactly the names        *)
(* "001.mp3" .. "MMM.mp3" (lower-case extension) in that folder.           *)
(***************************************************************************)
C3_FileNames ==
    \A j \in 1..Len(file_maps) :
        file_maps[j] # <<>> =>
            LET M == Len(mp3s[j])
                listed == {mp3s[j][i] : i \in 1..M}
            IN  /\ M <= MAX_FILES_PER_FOLDER
                /\ NamesOfFolder(folders[j]) # {}
                /\ \A n \in NamesOfFolder(folders[j]) :
                      /\ {m \in DOMAIN fs[n].kids : fs[n].kids[m].orig \in listed}
                           = {ThreeDigitsMp3(i) : i \in 1..M}
                      /\ {fs[n].kids[ThreeDigitsMp3(i)].orig : i \in 1..M} = listed

\* The step completes for a full folder (255 files) and for a folder whose
\* files had upper-case extensions.
C3_Witness ==
    \E j \in 1..Len(file_maps) :
        /\ Len(file_maps[j]) = MAX_FILES_PER_FOLDER
        /\ \E i \in 1..Len(mp3s[j]) :
              SubSeq(mp3s[j][i], Len(mp3s[j][i]) - 3, Len(mp3s[j][i])) = <<".", "M", "P", "3">>

(***************************************************************************)
(* C4: when rename_two_phase has returned, the entry that was listed at    *)
(* position i carries the final name of position i, and the mapping        *)
(* returned is the list of the pairs (items[i], make_final_name(i)) in the *)
(* order of the list.                                                      *)
(***************************************************************************)
C4_OrderPreserved ==
    /\ \A j \in 1..Len(file_maps) :
          file_maps[j] # <<>> =>
              /\ file_maps[j] = [i \in 1..Len(mp3s[j]) |->
                                    [old |-> mp3s[j][i], new |-> FileFinalName(i - 1)]]
              /\ \A n \in NamesOfFolder(folders[j]) :
                    \A i \in 1..Len(mp3s[j]) :
                        /\ FileFinalName(i - 1) \in DOMAIN fs[n].kids
                        /\ fs[n].kids[FileFinalName(i - 1)].orig = mp3s[j][i]
    /\ (pc = "done" /\ Len(folders) > 0) =>
          /\ folder_map = [i \in 1..Len(folders) |->
                              [old |-> folders[i], new |-> FolderFinalName(i - 1)]]
          /\ \A i \in 1..Len(folders) :
                /\ FolderFinalName(i - 1) \in DOMAIN fs
                /\ fs[FolderFinalName(i - 1)].orig = folders[i]

\* Both levels have returned, with lists of two entries or more, one of them
\* with names that had to move.
C4_Witness ==
    /\ pc = "done"
    /\ Len(folders) >= 2
    /\ \E i \in 1..Len(folders) : folder_map[i].old # folder_map[i].new
    /\ \E j \in 1..Len(file_maps) : Len(file_maps[j]) >= 2

(***************************************************************************)
(* C5: a second run of process_sd_card on the tree a successful run left,  *)
(* when it succeeds too, leaves the tree as it found it, and every pair of *)
(* its folder mapping and of its file mappings has old = new.              *)
(***************************************************************************)
C5_Idempotent ==
    (run = 2 /\ pc = "done") =>
        /\ fs = fs0
        /\ \A i \in 1..Len(folder_map) : folder_map[i].old = folder_map[i].new
        /\ \A j \in 1..Len(file_maps) :
              \A i \in 1..Len(file_maps[j]) : file_maps[j][i].old = file_maps[j][i].new

\* The second run renamed two folders or more and the files of one.
C5_Witness ==
    /\ run = 2
    /\ pc = "done"
    /\ Len(folder_map) >= 2
    /\ \E j \in 1..Len(file_maps) : Len(file_maps[j]) >= 2

(***************************************************************************)
(* C6: when the root holds more than 99 folders, the run reports the       *)
(* folder ceiling and ends with status 1 without a single call of          *)
(* os.rename.                                                              *)
(***************************************************************************)
C6_FolderCeiling ==
    Cardinality(Folders0) > MAX_FOLDERS =>
        /\ nren = 0
        /\ pc # "start" => (pc = "exit" /\ status = 1 /\ error = "too_many_folders")

(***************************************************************************)
(* C7: when the k-th listed folder is the first to hold more than 255 .mp3 *)
(* files, the run never succeeds, no call of os.rename is made inside that *)
(* folder or a later one, none on a folder, and (no call having failed for *)
(* a reason outside the program) the run ends with status 1 and with the   *)
(* .mp3 files of the folders before the k-th at their final names.         *)
(***************************************************************************)
C7_FileCeiling ==
    \A kk \in 1..Len(folders) :
        ( /\ Len(folders) <= MAX_FOLDERS
          /\ Mp3Count(fs0[folders[kk]]) > MAX_FILES_PER_FOLDER
          /\ \A j \in 1..(kk - 1) : Mp3Count(fs0[folders[j]]) <= MAX_FILES_PER_FOLDER )
        => /\ pc # "done"
           /\ \A j \in kk..Len(folders) : folders[j] \notin touched
           /\ last.level # "folders"
           /\ (pc = "exit" /\ ~Faulted) =>
                 /\ status = 1
                 /\ \A j \in 1..(kk - 1) :
                       {m \in DOMAIN fs[folders[j]].kids :
                           fs[folders[j]].kids[m].kind = "file" /\ EndsWithMp3(m)}
                         = {ThreeDigitsMp3(i) : i \in 1..Mp3Count(fs0[folders[j]])}

(***************************************************************************)
(* C8: when no call of os.rename has failed, a run ends with status 1      *)
(* exactly when the root is no directory, or holds more than 99 folders,   *)
(* or one of its folders holds more than 255 .mp3 files, and with status 0 *)
(* otherwise; with no folder under the root it ends with status 0 and      *)
(* without a call of os.rename.                                            *)
(***************************************************************************)
C8_ExitStatus ==
    (Ended /\ last.err = "") =>
        /\ status \in {0, 1}
        /\ status = 1 <=>
              \/ ~rootIsDir
              \/ Cardinality(Folders0) > MAX_FOLDERS
              \/ \E n \in Folders0 : Mp3Count(fs0[n]) > MAX_FILES_PER_FOLDER
        /\ (rootIsDir /\ Folders0 = {}) => (status = 0 /\ nren = 0)

(***************************************************************************)
(* C9: for a folder that holds no .mp3 file, os.rename is never called on  *)
(* an entry inside it and its entries stay as they were; the folder is on  *)
(* the list the folder-rename step works on and, once the run is done,     *)
(* carries the two-digit name of its position on that list.                *)
(***************************************************************************)
C9_EmptyFolder ==
    /\ \A o \in touched : HasMp3(fs0[o])
    /\ \A n \in DOMAIN fs :
          (IsDir(fs[n]) /\ fs[n].orig \in Folders0 /\ ~HasMp3(fs0[fs[n].orig]))
              => fs[n].kids = fs0[fs[n].orig].kids
    /\ pc = "done" =>
          /\ Folders0 = {folders[j] : j \in 1..Len(folders)}
          /\ \A j \in 1..Len(folders) :
                ~HasMp3(fs0[folders[j]]) =>
                    /\ folder_map[j] = [old |-> folders[j], new |-> TwoDigits(j)]
                    /\ TwoDigits(j) \in DOMAIN fs
                    /\ fs[TwoDigits(j)].orig = folders[j]

\* A run is done that renamed files in one folder and left alone a folder
\* that holds entries, none of them an .mp3 file, and was renamed itself.
C9_Witness ==
    /\ pc = "done"
    /\ touched # {}
    /\ \E o \in Folders0 :
          /\ ~HasMp3(fs0[o])
          /\ DOMAIN fs0[o].kids # {}
          /\ o \notin DOMAIN fs

(***************************************************************************)
(* C10: of two names that are equal, letter case apart, up to a digit run  *)
(* that starts at the same position in both, the digit runs denoting       *)
(* different integers, the sort by natural_sort_key puts the name with the *)
(* smaller integer first, whatever the lengths of the digit strings.       *)
(***************************************************************************)
\* The digit run of name a that starts after position p.
RunAfter(a, p) == SubSeq(a, p + 1, p + DigitRun(SubSeq(a, p + 1, Len(a))))

\* a and b agree up to a digit run and a's run denotes the smaller integer.
SmallerNumber(a, b) ==
    \E p \in 0..Len(a) :
        /\ p < Len(a) /\ p < Len(b)
        /\ Lower(SubSeq(a, 1, p)) = Lower(SubSeq(b, 1, p))
        /\ p = 0 \/ ~ReDigit(a[p])
        /\ ReDigit(a[p + 1]) /\ ReDigit(b[p + 1])
        /\ IntOf(RunAfter(a, p)) < IntOf(RunAfter(b, p))

\* a comes before b on the list.
Before(list, a, b) ==
    \E i, j \in 1..Len(list) : i < j /\ list[i] = a /\ list[j] = b

C10_NaturalOrder ==
    pc # "start" =>
        \A a, b \in Folders0 : SmallerNumber(a, b) => Before(folders, a, b)

\* The same of the names without a character that is a digit to isdigit()
\* and not to \d.
C10_DecimalNames ==
    pc # "start" =>
        \A a, b \in Folders0 :
            (SmallerNumber(a, b) /\ ~KeyRaises(a) /\ ~KeyRaises(b))
                => Before(folders, a, b)

(***************************************************************************)
(* C11: every listing of a run (the folders of the root, the .mp3 files of *)
(* every folder) is computed before the first call of os.rename of the     *)
(* run, and none is computed after a call of os.rename.                    *)
(***************************************************************************)
C11_SingleSnapshot == ~lateList

\* The .mp3 files a directory holds.
Mp3sOf(d) == {m \in DOMAIN d : d[m].kind = "file" /\ EndsWithMp3(m)}

\* The names on a list.
Range(list) == {list[i] : i \in 1..Len(list)}

(***************************************************************************)
(* C11, amended: every directory is listed once, as it was when the run    *)
(* started: the folder list before any call of os.rename, the .mp3 list of *)
(* a folder before any call of os.rename inside that folder, and all of    *)
(* them before any folder is renamed.                                      *)
(***************************************************************************)
C11_SnapshotPerDirectory ==
    /\ Len(folders) > 0 =>
          /\ Range(folders) = Folders0
          /\ Len(folders) = Cardinality(Folders0)
    /\ nren > 0 => Len(folders) > 0
    /\ Len(mp3s) <= Len(folders)
    /\ \A j \in 1..Len(mp3s) :
          /\ Range(mp3s[j]) = Mp3sOf(fs0[folders[j]].kids)
          /\ Len(mp3s[j]) = Cardinality(Mp3sOf(fs0[folders[j]].kids))
    /\ \A o \in touched : \E j \in 1..Len(mp3s) : folders[j] = o
    /\ last.level = "folders" => Len(mp3s) = Len(folders)

\* A run is done that listed a second folder after it had renamed the files
\* of a first one, and renamed files in both.
C11_Witness ==
    /\ pc = "done"
    /\ lateList
    /\ Cardinality(touched) >= 2

(***************************************************************************)
(* C12: inside one call of rename_two_phase no entry is renamed to its     *)
(* final name before every entry of the list has been renamed to its       *)
(* temporary name; every entry goes from its source name to its temporary  *)
(* name to its final name, in that order; and the temporary names of       *)
(* distinct entries are distinct.                                          *)
(***************************************************************************)
\* rename_two_phase is running.
InCall == pc \in {"phase1", "phase2"}

\* The temporary name of position i.
TempOf(i) == TempName(MakeFinalName(i - 1))

\* The entry listed at position i is found under the name n.
ItemAt(i, n) == n \in DOMAIN BaseDir /\ BaseDir[n].orig = Items[i]

\* Every entry of the list is where the two phases have brought it.
PhaseStates ==
    \A i \in 1..Len(Items) :
        IF pc = "phase1"
        THEN (IF i < k THEN ItemAt(i, TempOf(i)) ELSE ItemAt(i, Items[i]))
        ELSE (IF i < k THEN ItemAt(i, MakeFinalName(i - 1)) ELSE ItemAt(i, TempOf(i)))

\* base_dir when the run started, and: no entry of base_dir was overwritten.
BaseDir0 == IF InFiles THEN fs0[folders[fi]].kids ELSE fs0
NoneLost == Cardinality(DOMAIN BaseDir) = Cardinality(DOMAIN BaseDir0)

C12_PhaseOrder ==
    InCall =>
        /\ PhaseStates
        /\ pc = "phase2" => Len(temp_names) = Len(Items)
        /\ Cardinality({TempOf(i) : i \in 1..Len(Items)}) = Len(Items)

\* The same of the calls in which no entry was overwritten.
C12_WithoutCollision ==
    (InCall /\ NoneLost) =>
        /\ PhaseStates
        /\ pc = "phase2" => Len(temp_names) = Len(Items)
        /\ Cardinality({TempOf(i) : i \in 1..Len(Items)}) = Len(Items)

(***************************************************************************)
(* C13: every call of os.rename on a file inside a folder comes before the *)
(* first call of os.rename on a folder: the folder step starts when the    *)
(* file step of every folder is over, and while a file is being renamed    *)
(* every folder, the one that holds it among them, carries the name it was *)
(* listed under.                                                           *)
(***************************************************************************)
C13_FilesBeforeFolders ==
    /\ (InCall /\ InFiles) =>
          /\ last.level # "folders"
          /\ folders[fi] \in DOMAIN fs
          /\ fs[folders[fi]].orig = folders[fi]
    /\ last.level = "files" =>
          /\ last.base \in DOMAIN fs
          /\ \A n \in DOMAIN fs : fs[n].orig = n
    /\ (InCall /\ ~InFiles) => Len(file_maps) = Len(folders)
    /\ last.level = "folders" => Len(file_maps) = Len(folders)

\* A run is done that renamed the files of a folder and then the folder.
C13_Witness ==
    /\ pc = "done"
    /\ last.level = "folders"
    /\ \E n \in DOMAIN fs : fs[n].orig # n /\ fs[n].orig \in touched

(***************************************************************************)
(* C14: when a call of os.rename of rename_two_phase fails after others    *)
(* have succeeded, no further call is made, none of the renames made is    *)
(* undone, and every entry of the list is at its temporary name or at its  *)
(* final name.                                                             *)
(***************************************************************************)
\* The run was ended by a call of os.rename that failed.
RenameFailed == pc = "exit" /\ last.err # ""

\* The call failed in its first loop.
FailedInPhase1 == Len(temp_names) < Len(Items)

\* The temporary and the final names of the call.
TempNames == {TempOf(i) : i \in 1..Len(Items)}
FinalNames == {MakeFinalName(i - 1) : i \in 1..Len(Items)}

C14_MixedTempFinal ==
    (RenameFailed /\ Len(temp_names) > 0) =>
        \A i \in 1..Len(Items) :
            Items[i] \in DOMAIN BaseDir =>
                \/ BaseDir[Items[i]].orig # Items[i]
                \/ Items[i] \in {TempOf(i), MakeFinalName(i - 1)}

\* The sum of the lengths of the lists of a list.
RECURSIVE SumLen(_)
SumLen(lists) ==
    IF lists = <<>> THEN 0 ELSE Len(Head(lists)) + SumLen(Tail(lists))

(***************************************************************************)
(* C14, amended: when a call of os.rename of rename_two_phase fails, it is *)
(* the last call of the run and the renames made stay as they are; after a *)
(* failure in phase 1 the entries before the failing position are at       *)
(* temporary names and the entries from the failing position on are still  *)
(* at their source names (where no entry was overwritten: the one at its   *)
(* own temporary name, the other at its source name); after a failure in   *)
(* phase 2 every entry is at a temporary or at a final name (where no      *)
(* entry was overwritten: at its own final name before the failing         *)
(* position, at its own temporary name from there on).  An entry that an   *)
(* earlier rename replaced is at no name.                                  *)
(***************************************************************************)
C14_NoRollback ==
    RenameFailed =>
        LET early == {Items[i] : i \in 1..(k - 1)}
            late == {Items[i] : i \in k..Len(Items)}
            listed == Range(Items)
            temps == TempNames
            either == TempNames \cup FinalNames
        IN  /\ nren = 2 * SumLen(file_maps)
                        + (IF FailedInPhase1 THEN k ELSE Len(Items) + k)
            /\ Len(mapping) = Len(temp_names)
            /\ FailedInPhase1 => Len(temp_names) = k - 1
            /\ IF FailedInPhase1
               THEN \A n \in DOMAIN BaseDir :
                       /\ BaseDir[n].orig \in early => n \in temps
                       /\ BaseDir[n].orig \in late => n = BaseDir[n].orig
               ELSE \A n \in DOMAIN BaseDir :
                       BaseDir[n].orig \in listed => n \in either
            /\ NoneLost =>
                  \A i \in 1..Len(Items) :
                      IF FailedInPhase1
                      THEN (IF i < k THEN ItemAt(i, TempOf(i)) ELSE ItemAt(i, Items[i]))
                      ELSE (IF i < k THEN ItemAt(i, MakeFinalName(i - 1))
                                     ELSE ItemAt(i, TempOf(i)))

\* A call failed in phase 1 after a rename that succeeded, for a reason
\* outside the program, and left an entry at its source name.
C14_Witness ==
    /\ RenameFailed
    /\ Faulted
    /\ FailedInPhase1
    /\ k > 1
    /\ Items[k] \in DOMAIN BaseDir
    /\ Items[k] \notin TempNames \cup FinalNames

(***************************************************************************)
(* C15: an entry whose name is its final name is not skipped: the call of  *)
(* os.rename made for it has its source equal to its target, and the       *)
(* driver reports the entry as "(unchanged)".                              *)
(***************************************************************************)
\* The last call of os.rename was the call of phase 1 for position i.
JustTemped(i) ==
    /\ InCall
    /\ last.err = ""
    /\ \/ pc = "phase1" /\ k > 1 /\ i = k - 1
       \/ pc = "phase2" /\ k = 1 /\ i = Len(Items)

\* The last call of os.rename was the call of phase 2 for position i.
JustFinalled(i) ==
    /\ pc = "phase2"
    /\ k > 1
    /\ i = k - 1

\* The positions the last call can have been made for.
Recent == {i \in {k - 1, Len(Items)} : i >= 1}

\* The entries listed at their final names are reported as unchanged.
ReportedUnchanged ==
    /\ \A j \in 1..Len(file_maps) :
          \A i \in 1..Len(file_maps[j]) :
              /\ file_maps[j][i].old = mp3s[j][i]
              /\ mp3s[j][i] = FileFinalName(i - 1)
                    <=> Reported(file_maps[j][i]) = "(unchanged)"
    /\ \A i \in 1..Len(folder_map) :
          /\ folder_map[i].old = folders[i]
          /\ folders[i] = FolderFinalName(i - 1)
                <=> Reported(folder_map[i]) = "(unchanged)"

C15_NoOpRename ==
    /\ InCall =>
          \A i \in Recent :
              (JustTemped(i) /\ Items[i] = MakeFinalName(i - 1)) =>
                  /\ last.src = Items[i]
                  /\ last.dst = last.src
    /\ ReportedUnchanged

(***************************************************************************)
(* C15, amended: an entry whose name is its final name is not skipped: it  *)
(* is renamed to its temporary name in phase 1 and from there back to its  *)
(* final name in phase 2, no call of os.rename made for it has its source  *)
(* equal to its target, and the driver reports the entry as "(unchanged)". *)
(***************************************************************************)
C15_RenamedViaTemp ==
    /\ InCall =>
          \A i \in Recent :
              /\ JustTemped(i) =>
                    /\ last.src = Items[i]
                    /\ last.dst = TempOf(i)
                    /\ Items[i] = MakeFinalName(i - 1) => last.dst # last.src
              /\ JustFinalled(i) =>
                    /\ last.src = TempOf(i)
                    /\ last.dst = MakeFinalName(i - 1)
                    /\ last.dst # last.src
    /\ ReportedUnchanged

\* In a second run, an entry at its final name has been renamed to its
\* temporary name.
C15_Witness ==
    /\ run = 2
    /\ InCall
    /\ \E i \in Recent :
          /\ JustTemped(i)
          /\ Items[i] = MakeFinalName(i - 1)
          /\ ItemAt(i, TempOf(i))

(***************************************************************************)
(* C16: the entries the driver does not list (under the root, what is no   *)
(* directory; in a folder, what is no regular file with an .mp3 extension) *)
(* are never the source or the target of a call of os.rename, keep their   *)
(* names and are never overwritten.                                        *)
(***************************************************************************)
\* The names of the entries of a directory the driver does not list.
UnlistedRoot(d) == {n \in DOMAIN d : d[n].kind # "dir"}
UnlistedIn(d) == {m \in DOMAIN d : ~(d[m].kind = "file" /\ EndsWithMp3(m))}

\* The entry that started the run under the name n is still there.
Kept(d, n) == n \in DOMAIN d /\ d[n].orig = n

C16_UnlistedFrame ==
    /\ (last.level = "folders" /\ last.err = "") =>
          /\ last.src \notin UnlistedRoot(fs0)
          /\ \A i \in 1..Len(last.held) : last.held[i] \notin UnlistedRoot(fs0)
    /\ (last.level = "files" /\ last.err = "") =>
          /\ last.src \notin UnlistedIn(fs0[last.base].kids)
          /\ \A i \in 1..Len(last.held) :
                last.held[i] \notin UnlistedIn(fs0[last.base].kids)
    /\ \A n \in UnlistedRoot(fs0) : Kept(fs, n)
    /\ \A n \in DOMAIN fs :
          fs[n].kind = "dir" =>
              \A m \in UnlistedIn(fs0[fs[n].orig].kids) : Kept(fs[n].kids, m)

(***************************************************************************)
(* C17: after a run that completes successfully no folder under the root   *)
(* and no file inside a folder carries a name that begins with             *)
(* TEMP_PREFIX: such names exist only strictly between the start and the   *)
(* end of a call of rename_two_phase, and every call has ended.            *)
(***************************************************************************)
\* name begins with TEMP_PREFIX.
HasPrefix(name) ==
    /\ Len(name) >= Len(TEMP_PREFIX)
    /\ SubSeq(name, 1, Len(TEMP_PREFIX)) = TEMP_PREFIX

\* No call of rename_two_phase is running and none has failed.
OutsideCall == pc \in {"start", "folder", "done"}

C17_NoResidue ==
    pc = "done" =>
        \A n \in DOMAIN fs :
            fs[n].kind = "dir" =>
                /\ ~HasPrefix(n)
                /\ \A m \in DOMAIN fs[n].kids :
                      fs[n].kids[m].kind = "file" => ~HasPrefix(m)

(***************************************************************************)
(* C17, amended: after a run that completes successfully no folder under   *)
(* the root and no listed file (a regular file with an .mp3 extension)     *)
(* inside a folder carries a name that begins with TEMP_PREFIX; and a name *)
(* with the prefix found outside the calls of rename_two_phase was there   *)
(* when the run started, held by the same entry: the names the calls       *)
(* create are gone when they return.                                       *)
(***************************************************************************)
C17_NoListedResidue ==
    /\ pc = "done" =>
          \A n \in DOMAIN fs :
              fs[n].kind = "dir" =>
                  /\ ~HasPrefix(n)
                  /\ \A m \in Mp3sOf(fs[n].kids) : ~HasPrefix(m)
    /\ OutsideCall =>
          \A n \in DOMAIN fs :
              /\ HasPrefix(n) => fs[n].orig = n
              /\ \A m \in DOMAIN fs[n].kids :
                    HasPrefix(m) => fs[n].kids[m].orig = m

\* A run is done that renamed the files of a folder, one of them listed
\* under a name with the prefix, and left in it a file with the prefix that
\* is not listed.
C17_Witness ==
    /\ pc = "done"
    /\ \E n \in DOMAIN fs :
          /\ fs[n].orig \in touched
          /\ \E m \in Mp3sOf(fs0[fs[n].orig].kids) : HasPrefix(m)
          /\ \E m \in DOMAIN fs[n].kids : HasPrefix(m)

(***************************************************************************)
(* C18: for every name natural_sort_key returns a list with lower-case     *)
(* text at the positions 0, 2, 4, ... and integers at the positions 1, 3,  *)
(* 5, ...; so the tokens two keys have at the same position are of the     *)
(* same kind, and a text is never compared with an integer.                *)
(***************************************************************************)
\* Text and integers alternate in the key, the text in lower case.
Aligned(key) ==
    \A i \in 1..Len(key) :
        IF i % 2 = 1
        THEN key[i].kind = "str" /\ key[i].str = Lower(key[i].str)
        ELSE key[i].kind = "int"

C18_TokenAlignment ==
    pc # "start" =>
        /\ \A a \in Folders0 :
              /\ ~KeyRaises(a)
              /\ Aligned(natural_sort_key(a))
        /\ \A a, b \in Folders0 :
              ~KeyTypeError(natural_sort_key(a), natural_sort_key(b))

\* The same of the names for which natural_sort_key returns.
C18_WhenKeyed ==
    pc # "start" =>
        /\ \A a \in Folders0 : ~KeyRaises(a) => Aligned(natural_sort_key(a))
        /\ \A a, b \in Folders0 :
              (~KeyRaises(a) /\ ~KeyRaises(b))
                  => ~KeyTypeError(natural_sort_key(a), natural_sort_key(b))

=============================================================================
